---- MODULE Spec2Model ----
(***************************************************************************)
(* Evaluation harness of python-chebai:                                    *)
(*   - the class-vocabulary aligner and the evaluate_model function of     *)
(*     tutorials/process_results_old_chebi.ipynb,                          *)
(*   - the buffer-directory variant of evaluate_model used by the newer    *)
(*     results notebook,                                                   *)
(*   - the "Verify Constants" GitHub workflow.                             *)
(* Tensors are sequences: a 1-D tensor is a sequence of scalars, a 2-D     *)
(* tensor is a sequence of rows.                                           *)
(***************************************************************************)
EXTENDS Integers, Sequences, FiniteSets, TLC

\* ------------------------------------------------------------------ bounds
MaxClasses == 3      \* longest class vocabulary that is read
NumIds == 3          \* number of distinct class identifiers
NumClasses == 3      \* columns of a model's prediction/label row
NumExampleKinds == 3 \* distinct examples the processed test file may hold
MaxExamples == 3     \* longest example list given to evaluate_model
MetricClasses == 2   \* columns of a tensor handed to the F1 metric on its own
MaxRows == 3         \* most rows of a tensor handed to the F1 metric
ReportClasses == 3   \* columns of a tensor handed to print_metrics
MaxReportRows == 1   \* most rows of a tensor handed to print_metrics
MaxBatchSize == 2    \* largest batch_size of the buffered run
MaxStale == 3        \* buffer indexes that may hold files of an earlier run

\* --------------------------------------------------------------- variables
VARIABLES
    \* vocabulary aligner
    v200_classes, v148_classes, common_classes,
    common_classes_mask_v200, common_classes_mask_v148, apos, apc, aout,
    \* evaluate_model (process_results_old_chebi.ipynb)
    data_list, common_classes_mask, preds_list, labels_list, row,
    test_preds, test_labels, pc, error, out, ret,
    \* MultilabelF1Score applied on its own
    m_preds, m_labels, f1_macro, f1_micro, mpc,
    \* print_metrics: its top_k argument and the two lists it prints
    top_k, top_classes, zero_classes,
    \* buffered evaluate_model / load_results_from_buffer
    buffer_dir, batch_size, b_data, bpos, save_ind, mem_result, buf_result, bpc,
    \* Verify Constants workflow
    event_paths, diff_vs_dev, reader_constants, changed_files, constants_json,
    env, compared, ci_out, exit_code, cpc

alignVars == <<v200_classes, v148_classes, common_classes,
               common_classes_mask_v200, common_classes_mask_v148, apos, apc, aout>>
evalVars == <<data_list, common_classes_mask, preds_list, labels_list, row,
              test_preds, test_labels, pc, error, out, ret>>
metricVars == <<m_preds, m_labels, f1_macro, f1_micro, mpc,
                top_k, top_classes, zero_classes>>
bufVars == <<buffer_dir, batch_size, b_data, bpos, save_ind, mem_result, buf_result, bpc>>
ciVars == <<event_paths, diff_vs_dev, reader_constants, changed_files, constants_json,
            env, compared, ci_out, exit_code, cpc>>
vars == <<alignVars, evalVars, metricVars, bufVars, ciVars>>

\* ----------------------------------------------------------------- helpers
SeqsUpTo(S, n) == UNION {[1..k -> S] : k \in 0..n}

RECURSIVE SumSeq(_)
SumSeq(s) == IF s = <<>> THEN 0 ELSE s[1] + SumSeq(Tail(s))

\* number of true entries of a boolean sequence (torch .sum() of a bool row)
Popcount(m) == Cardinality({i \in DOMAIN m : m[i]})

\* states of the parts of the program that a specification does not run
AlignIdle ==
    /\ v200_classes = <<>> /\ v148_classes = <<>> /\ common_classes = <<>>
    /\ common_classes_mask_v200 = <<>> /\ common_classes_mask_v148 = <<>>
    /\ apos = 1 /\ apc = "idle" /\ aout = <<>>

EvalIdle ==
    /\ data_list = <<>> /\ common_classes_mask = <<>>
    /\ preds_list = <<>> /\ labels_list = <<>> /\ row = 1
    /\ test_preds = <<>> /\ test_labels = <<>>
    /\ pc = "idle" /\ error = "" /\ out = <<>> /\ ret = <<>>

MetricIdle ==
    /\ m_preds = <<>> /\ m_labels = <<>>
    /\ f1_macro = <<0, 1>> /\ f1_micro = <<0, 1>> /\ mpc = "idle"
    /\ top_k = 0 /\ top_classes = <<>> /\ zero_classes = <<>>

BufIdle ==
    /\ buffer_dir = <<>> /\ batch_size = 1 /\ b_data = <<>> /\ bpos = 1
    /\ save_ind = 0 /\ mem_result = <<>> /\ buf_result = <<>> /\ bpc = "idle"

CiIdle ==
    /\ event_paths = {} /\ diff_vs_dev = {} /\ reader_constants = <<>>
    /\ changed_files = <<>> /\ constants_json = <<>> /\ env = <<>>
    /\ compared = <<>> /\ ci_out = <<>> /\ exit_code = 0 /\ cpc = "idle"

\* ======================================================================
\* Vocabulary aligner (process_results_old_chebi.ipynb, cells 3 to 5)
\* ======================================================================
ClassIds == 1..NumIds

\* Python's  c in some_list
InList(c, list) == \E i \in DOMAIN list : list[i] = c

\* [c in common for c in classes], wrapped in one more list: a (1, C) tensor
ClassesMask(classes, common) ==
    << [i \in DOMAIN classes |-> InList(classes[i], common)] >>

InitAlign ==
    /\ v200_classes \in SeqsUpTo(ClassIds, MaxClasses)
    /\ v148_classes \in SeqsUpTo(ClassIds, MaxClasses)
    /\ common_classes = <<>>
    /\ common_classes_mask_v200 = <<>> /\ common_classes_mask_v148 = <<>>
    /\ apos = 1 /\ apc = "loop" /\ aout = <<>>
    /\ EvalIdle /\ MetricIdle /\ BufIdle /\ CiIdle

\* CommonLoop with the membership test made against the wrong vocabulary
CommonLoop_wrongList ==
    /\ apc = "loop" /\ apos <= Len(v200_classes)
    /\ common_classes' =
         IF InList(v200_classes[apos], v200_classes)
         THEN Append(common_classes, v200_classes[apos])
         ELSE common_classes
    /\ apos' = apos + 1
    /\ UNCHANGED <<v200_classes, v148_classes, common_classes_mask_v200,
                   common_classes_mask_v148, apc, aout>>
    /\ UNCHANGED <<evalVars, metricVars, bufVars, ciVars>>

\* CommonLoop building a duplicate-free intersection
CommonLoop_dedup ==
    /\ apc = "loop" /\ apos <= Len(v200_classes)
    /\ common_classes' =
         IF /\ InList(v200_classes[apos], v148_classes)
            /\ ~InList(v200_classes[apos], common_classes)
         THEN Append(common_classes, v200_classes[apos])
         ELSE common_classes
    /\ apos' = apos + 1
    /\ UNCHANGED <<v200_classes, v148_classes, common_classes_mask_v200,
                   common_classes_mask_v148, apc, aout>>
    /\ UNCHANGED <<evalVars, metricVars, bufVars, ciVars>>

\* one iteration of  for v200_class in v200_classes
CommonLoop ==
    /\ apc = "loop" /\ apos <= Len(v200_classes)
    /\ common_classes' =
         IF InList(v200_classes[apos], v148_classes)
         THEN Append(common_classes, v200_classes[apos])
         ELSE common_classes
    /\ apos' = apos + 1
    /\ UNCHANGED <<v200_classes, v148_classes, common_classes_mask_v200,
                   common_classes_mask_v148, apc, aout>>
    /\ UNCHANGED <<evalVars, metricVars, bufVars, ciVars>>

\* the two mask assignments that follow the loop
BuildMasks ==
    /\ apc = "loop" /\ apos > Len(v200_classes)
    /\ common_classes_mask_v200' = ClassesMask(v200_classes, common_classes)
    /\ common_classes_mask_v148' = ClassesMask(v148_classes, common_classes)
    /\ apc' = "masks"
    /\ UNCHANGED <<v200_classes, v148_classes, common_classes, apos, aout>>
    /\ UNCHANGED <<evalVars, metricVars, bufVars, ciVars>>

\* the cell that prints the three class counts
PrintClassCounts ==
    /\ apc = "masks"
    /\ aout' = <<Len(v148_classes), Len(v200_classes), Len(common_classes)>>
    /\ apc' = "done"
    /\ UNCHANGED <<v200_classes, v148_classes, common_classes,
                   common_classes_mask_v200, common_classes_mask_v148, apos>>
    /\ UNCHANGED <<evalVars, metricVars, bufVars, ciVars>>

NextAlign == CommonLoop \/ BuildMasks \/ PrintClassCounts

SpecAlign == InitAlign /\ [][NextAlign]_vars

\* ---------------------------------------------------------------- C1, C2
ElemsOf(s) == {s[i] : i \in DOMAIN s}
NoRepeat(s) == \A i, j \in DOMAIN s : s[i] = s[j] => i = j
KeptFromA(n) ==
    SelectSeq(SubSeq(v200_classes, 1, n), LAMBDA x : x \in ElemsOf(v148_classes))
AlignerRan == apc \in {"masks", "done"}

\* C1: common is the subsequence of A made of exactly the entries of A that
\* occur in B, in A's order; during the loop it is that subsequence of the
\* part of A already visited.
C1_CommonIsOrderedFilter ==
    /\ apc \in {"loop", "masks", "done"} => common_classes = KeptFromA(apos - 1)
    /\ AlignerRan => common_classes = KeptFromA(Len(v200_classes))

C1_Witness ==
    /\ apc = "done"
    /\ Len(common_classes) >= 2
    /\ Len(common_classes) < Len(v200_classes)
    /\ common_classes[1] # common_classes[2]

\* C2 as stated: for every pair (A, B), repeated identifiers included, common
\* is a subset of A and of B and popcount(mask_A) = len(common) = popcount(mask_B).
C2_Original ==
    AlignerRan =>
        /\ ElemsOf(common_classes) \subseteq ElemsOf(v200_classes)
        /\ ElemsOf(common_classes) \subseteq ElemsOf(v148_classes)
        /\ Popcount(common_classes_mask_v200[1]) = Len(common_classes)
        /\ Len(common_classes) = Popcount(common_classes_mask_v148[1])

\* C2 amended: common is a subset of A and of B and popcount(mask_A) =
\* len(common) for every pair; popcount(mask_B) equals them when no identifier
\* is repeated inside A or inside B.
C2_MaskCounts ==
    AlignerRan =>
        /\ ElemsOf(common_classes) \subseteq ElemsOf(v200_classes)
        /\ ElemsOf(common_classes) \subseteq ElemsOf(v148_classes)
        /\ Popcount(common_classes_mask_v200[1]) = Len(common_classes)
        /\ (NoRepeat(v200_classes) /\ NoRepeat(v148_classes))
              => Popcount(common_classes_mask_v148[1]) = Len(common_classes)

C2_Witness ==
    /\ apc = "done"
    /\ NoRepeat(v200_classes) /\ NoRepeat(v148_classes)
    /\ Len(common_classes) >= 1
    /\ Popcount(common_classes_mask_v200[1]) < Len(v200_classes)
    /\ Popcount(common_classes_mask_v148[1]) < Len(v148_classes)

\* ======================================================================
\* evaluate_model (process_results_old_chebi.ipynb, cell 6)
\* ======================================================================
\* Rationals are pairs <<numerator, denominator>> with a positive denominator.
FracEq(a, b) == a[1] * b[2] = b[1] * a[2]
FracAdd(a, b) == <<a[1] * b[2] + b[1] * a[2], a[2] * b[2]>>

\* predictions are probabilities, written in percent; MultilabelF1Score's
\* default threshold is 0.5
Threshold == 50

\* An evaluation example together with what the loaded checkpoint makes of it:
\* the row of predictions and the row of labels that _get_prediction_and_labels
\* gives for the single-example batch.  The table is an arbitrary fixed one in
\* which every (example, column) pair has its own prediction value.
Example(k) ==
    [id     |-> k,
     preds  |-> [c \in 1..NumClasses |-> (20 * c + 7 * k) % 100],
     labels |-> [c \in 1..NumClasses |-> (k + c) % 2]]

ExampleSet == {Example(k) : k \in 1..NumExampleKinds}

\* model._process_batch, model(...) and model._get_prediction_and_labels on a
\* single-example batch: two (1, C) tensors
GetPredictionAndLabels(example) == << <<example.preds>>, <<example.labels>> >>

NoMask == <<>>      \* common_classes_mask=None
MaskSet == {<<m>> : m \in [1..NumClasses -> BOOLEAN]}

FailStages == {"_process_batch", "forward", "_get_prediction_and_labels"}

\* SelectRow keeping the positions the mask excludes
RECURSIVE SelectRow_inverted(_, _)
SelectRow_inverted(r, m) ==
    IF r = <<>> THEN <<>>
    ELSE (IF Head(m) THEN <<>> ELSE <<Head(r)>>) \o SelectRow_inverted(Tail(r), Tail(m))

\* the entries of a row at the true positions of a boolean row, in row order
RECURSIVE SelectRow(_, _)
SelectRow(r, m) ==
    IF r = <<>> THEN <<>>
    ELSE (IF Head(m) THEN <<Head(r)>> ELSE <<>>) \o SelectRow(Tail(r), Tail(m))

RECURSIVE SelectRows(_, _)
SelectRows(t, mask) ==
    IF t = <<>> THEN <<>>
    ELSE SelectRow(Head(t), Head(mask)) \o SelectRows(Tail(t), Tail(mask))

SameShape(t, mask) ==
    /\ Len(t) = Len(mask)
    /\ \A i \in DOMAIN t : Len(t[i]) = Len(mask[i])

\* MaskIndex that pairs entries with mask positions without checking the shape
MaskIndex_noShapeCheck(t, mask) ==
    [ok |-> TRUE,
     v  |-> SelectRows([i \in 1..Len(t) |-> [j \in 1..Len(t[i]) |-> t[i][j]]],
                       [i \in 1..Len(t) |->
                          [j \in 1..Len(t[i]) |->
                             IF i \in DOMAIN mask /\ j \in DOMAIN mask[i]
                             THEN mask[i][j] ELSE TRUE]])]

\* t[mask] for a 2-D tensor and a 2-D boolean mask: the selected entries as a
\* 1-D tensor in row-major order; IndexError when the shapes differ
MaskIndex(t, mask) ==
    IF SameShape(t, mask)
    THEN [ok |-> TRUE, v |-> SelectRows(t, mask)]
    ELSE [ok |-> FALSE, v |-> <<>>]

\* v.unsqueeze(0)
Unsqueeze0(v) == <<v>>

\* list.append inserting at the front
ListAppend_front(list, t) == <<t>> \o list

\* preds_list.append(...) / labels_list.append(...)
ListAppend(list, t) == Append(list, t)

RECURSIVE ConcatRows(_)
ConcatRows(list) ==
    IF list = <<>> THEN <<>> ELSE Head(list) \o ConcatRows(Tail(list))

\* torch.cat that keeps only the first tensor of the list
TorchCat_first(list) ==
    IF list = <<>>
    THEN [ok |-> FALSE, t |-> <<>>]
    ELSE [ok |-> TRUE, t |-> Head(list)]

\* torch.cat(list) along dimension 0; RuntimeError on an empty list
TorchCat(list) ==
    IF list = <<>>
    THEN [ok |-> FALSE, t |-> <<>>]
    ELSE [ok |-> TRUE, t |-> ConcatRows(list)]

\* tensor.shape of a 2-D tensor with at least one row
Shape(t) == <<Len(t), Len(t[1])>>

\* ---- MultilabelF1Score -------------------------------------------------
\* per-label counts of the thresholded predictions against the labels
TruePos(P, L, c) ==
    Cardinality({n \in DOMAIN P : P[n][c] > Threshold /\ L[n][c] = 1})
FalsePos(P, L, c) ==
    Cardinality({n \in DOMAIN P : P[n][c] > Threshold /\ L[n][c] = 0})
FalseNeg(P, L, c) ==
    Cardinality({n \in DOMAIN P : ~(P[n][c] > Threshold) /\ L[n][c] = 1})

\* _safe_divide: 0 where the denominator is 0
SafeDivide(num, den) == IF den = 0 THEN <<0, 1>> ELSE <<num, den>>

\* FBetaFromCounts computing the Jaccard index instead
FBetaFromCounts_jaccard(tp, fp, fn) == SafeDivide(tp, tp + fp + fn)

\* F-beta with beta = 1 from the counts
FBetaFromCounts(tp, fp, fn) == SafeDivide(2 * tp, 2 * tp + fp + fn)

RECURSIVE FracSum(_)
FracSum(fs) == IF fs = <<>> THEN <<0, 1>> ELSE FracAdd(Head(fs), FracSum(Tail(fs)))

PerClassF1(P, L) ==
    [c \in 1..Len(P[1]) |->
        FBetaFromCounts(TruePos(P, L, c), FalsePos(P, L, c), FalseNeg(P, L, c))]

\* average="macro": every label has weight one
MacroF1(P, L) ==
    LET s == FracSum(PerClassF1(P, L)) IN <<s[1], s[2] * Len(P[1])>>

\* average="micro": the counts are summed over the labels first
MicroF1(P, L) ==
    FBetaFromCounts(SumSeq([c \in 1..Len(P[1]) |-> TruePos(P, L, c)]),
                    SumSeq([c \in 1..Len(P[1]) |-> FalsePos(P, L, c)]),
                    SumSeq([c \in 1..Len(P[1]) |-> FalseNeg(P, L, c)]))

\* the metric constructor rejects fewer than two labels with a ValueError
NumLabelsValid(num_labels) == num_labels >= 2

\* ---- the function -------------------------------------------------------
Init ==
    /\ data_list \in SeqsUpTo(ExampleSet, MaxExamples)
    /\ common_classes_mask \in {NoMask} \cup MaskSet
    /\ preds_list = <<>> /\ labels_list = <<>> /\ row = 1
    /\ test_preds = <<>> /\ test_labels = <<>>
    /\ pc = "loop" /\ error = "" /\ out = <<>> /\ ret = <<>>
    /\ AlignIdle /\ MetricIdle /\ BufIdle /\ CiIdle

\* one iteration of  for row in tqdm.tqdm(data_list)  that raises nothing
ProcessRow ==
    /\ pc = "loop" /\ row <= Len(data_list)
    /\ LET pl     == GetPredictionAndLabels(data_list[row])
           preds  == pl[1]
           labels == pl[2]
       IN  IF common_classes_mask # NoMask
           THEN LET mp == MaskIndex(preds, common_classes_mask)
                    ml == MaskIndex(labels, common_classes_mask)
                IN  IF mp.ok /\ ml.ok
                    THEN /\ preds_list' = ListAppend(preds_list, Unsqueeze0(mp.v))
                         /\ labels_list' = ListAppend(labels_list, Unsqueeze0(ml.v))
                         /\ row' = row + 1
                         /\ UNCHANGED <<pc, error>>
                    ELSE /\ pc' = "aborted" /\ error' = "IndexError"
                         /\ UNCHANGED <<preds_list, labels_list, row>>
           ELSE /\ preds_list' = ListAppend(preds_list, preds)
                /\ labels_list' = ListAppend(labels_list, labels)
                /\ row' = row + 1
                /\ UNCHANGED <<pc, error>>
    /\ UNCHANGED <<data_list, common_classes_mask, test_preds, test_labels, out, ret>>
    /\ UNCHANGED <<alignVars, metricVars, bufVars, ciVars>>

\* RowRaises that drops the failing example and goes on with the next one
RowRaises_skip ==
    /\ pc = "loop" /\ row <= Len(data_list)
    /\ \E stage \in FailStages : error' = stage
    /\ row' = row + 1
    /\ UNCHANGED <<data_list, common_classes_mask, preds_list, labels_list,
                   test_preds, test_labels, pc, out, ret>>
    /\ UNCHANGED <<alignVars, metricVars, bufVars, ciVars>>

\* an iteration in which batch processing, the forward pass or the extraction
\* raises: nothing catches the exception, it leaves evaluate_model
RowRaises ==
    /\ pc = "loop" /\ row <= Len(data_list)
    /\ \E stage \in FailStages : error' = stage
    /\ pc' = "aborted"
    /\ UNCHANGED <<data_list, common_classes_mask, preds_list, labels_list, row,
                   test_preds, test_labels, out, ret>>
    /\ UNCHANGED <<alignVars, metricVars, bufVars, ciVars>>

\* test_preds = torch.cat(preds_list); test_labels = torch.cat(labels_list)
CatResults ==
    /\ pc = "loop" /\ row > Len(data_list)
    /\ LET cp == TorchCat(preds_list)
           cl == TorchCat(labels_list)
       IN  IF cp.ok /\ cl.ok
           THEN /\ test_preds' = cp.t /\ test_labels' = cl.t
                /\ pc' = "report"
                /\ UNCHANGED error
           ELSE /\ pc' = "aborted" /\ error' = "RuntimeError"
                /\ UNCHANGED <<test_preds, test_labels>>
    /\ UNCHANGED <<data_list, common_classes_mask, preds_list, labels_list, row, out, ret>>
    /\ UNCHANGED <<alignVars, metricVars, bufVars, ciVars>>

\* the two shape prints, the two metrics and their prints; the function has
\* no return statement, its caller gets None
Report ==
    /\ pc = "report"
    /\ LET shapes == <<[shape |-> Shape(test_preds)], [shape |-> Shape(test_labels)]>>
           n      == Shape(test_preds)[2]
       IN  IF NumLabelsValid(n)
           THEN /\ out' = shapes \o
                     <<[classes |-> n, f1 |-> MacroF1(test_preds, test_labels)],
                       [classes |-> n, f1 |-> MicroF1(test_preds, test_labels)]>>
                /\ pc' = "done"
                /\ UNCHANGED error
           ELSE /\ out' = shapes
                /\ pc' = "aborted" /\ error' = "ValueError"
    /\ ret' = <<>>
    /\ UNCHANGED <<data_list, common_classes_mask, preds_list, labels_list, row,
                   test_preds, test_labels>>
    /\ UNCHANGED <<alignVars, metricVars, bufVars, ciVars>>

Next == ProcessRow \/ RowRaises \/ CatResults \/ Report

Spec == Init /\ [][Next]_vars

\* ------------------------------------------------------- C3, C4, C5, C6, C8
\* index of the j-th true entry of a boolean row
NthTrue(m, j) ==
    CHOOSE i \in DOMAIN m : m[i] /\ Cardinality({k \in 1..i : m[k]}) = j

\* what a full row must look like once accumulated under the run's mask
ExpectedRow(r) ==
    IF common_classes_mask = NoMask THEN r
    ELSE [j \in 1..Popcount(common_classes_mask[1]) |->
             r[NthTrue(common_classes_mask[1], j)]]

NumSelected ==
    IF common_classes_mask = NoMask THEN NumClasses
    ELSE Popcount(common_classes_mask[1])

\* the loop ended without an exception and the torch.cat lines were executed
CatRan == pc \in {"report", "done"} \/ error \in {"RuntimeError", "ValueError"}
\* test_preds and test_labels exist
TensorsBuilt == pc \in {"report", "done"} \/ error = "ValueError"

\* C3 as stated: after the loop has gone through an example list of any
\* length, the empty one included, the accumulated prediction and label
\* tensors exist and have len(example_list) rows each, mask or no mask.
C3_Original ==
    CatRan =>
        /\ error # "RuntimeError"
        /\ Len(test_preds) = Len(data_list)
        /\ Len(test_labels) = Len(data_list)

\* C3 amended: for an example list of any positive length the accumulated
\* tensors have len(example_list) rows each, mask or no mask; for the empty
\* list torch.cat raises and no accumulated tensor exists.
C3_RowCount ==
    /\ (CatRan /\ data_list # <<>>) =>
          /\ error # "RuntimeError"
          /\ Len(test_preds) = Len(data_list)
          /\ Len(test_labels) = Len(data_list)
    /\ (CatRan /\ data_list = <<>>) =>
          /\ error = "RuntimeError" /\ pc = "aborted"

C3_Witness ==
    /\ pc = "report"
    /\ common_classes_mask # NoMask
    /\ Len(data_list) >= 2
    /\ Len(test_preds) = Len(data_list)

\* C4 as stated: evaluate_model returns to its caller two tensors of shape
\* (num_examples, num_selected_classes), filtered to the mask's true positions
\* when a mask is given and unfiltered otherwise.
C4_Original ==
    pc = "done" =>
        /\ ret = <<test_preds, test_labels>>
        /\ Shape(test_preds) = <<Len(data_list), NumSelected>>
        /\ Shape(test_labels) = <<Len(data_list), NumSelected>>

\* C4 amended: evaluate_model returns nothing; the two tensors it builds, and
\* whose shapes it prints, have shape (num_examples, num_selected_classes):
\* with a mask every row holds exactly the values at the mask's true
\* positions in column order and num_selected_classes is the mask's popcount,
\* without a mask the rows are unfiltered and it is the full class count.
C4_BuiltShape ==
    /\ TensorsBuilt =>
          /\ Shape(test_preds) = <<Len(data_list), NumSelected>>
          /\ Shape(test_labels) = <<Len(data_list), NumSelected>>
          /\ \A i \in DOMAIN test_preds :
                /\ test_preds[i] = ExpectedRow(data_list[i].preds)
                /\ test_labels[i] = ExpectedRow(data_list[i].labels)
    /\ Len(out) >= 2 =>
          /\ out[1].shape = <<Len(data_list), NumSelected>>
          /\ out[2].shape = <<Len(data_list), NumSelected>>
    /\ ret = <<>>

C4_Witness ==
    /\ pc = "done"
    /\ common_classes_mask # NoMask
    /\ NumSelected < NumClasses
    /\ ~common_classes_mask[1][1]
    /\ Len(test_preds) >= 2

\* C5: at every step of the loop and at its end, entry i of the accumulated
\* predictions and entry i of the accumulated labels are the pair extracted
\* from example i: list order, each example once, same index for both.
C5_RowOrder ==
    /\ Len(preds_list) = row - 1
    /\ Len(labels_list) = row - 1
    /\ row <= Len(data_list) + 1
    /\ \A i \in DOMAIN preds_list :
          /\ preds_list[i] = <<ExpectedRow(data_list[i].preds)>>
          /\ labels_list[i] = <<ExpectedRow(data_list[i].labels)>>
    /\ TensorsBuilt =>
          /\ DOMAIN test_preds = DOMAIN data_list
          /\ DOMAIN test_labels = DOMAIN data_list
          /\ \A i \in DOMAIN data_list :
                /\ <<test_preds[i]>> = preds_list[i]
                /\ <<test_labels[i]>> = labels_list[i]

C5_Witness ==
    /\ pc = "loop"
    /\ row = 3
    /\ Len(data_list) >= 3
    /\ data_list[1] # data_list[2]

\* C6: when batch processing, the forward pass or the extraction raises for
\* example k, the run stops there: the examples before k are the only ones
\* accumulated, k is not skipped, nothing runs afterwards, and no tensor,
\* shape or metric is produced, printed or returned.
C6_AbortOnFailure ==
    error \in FailStages =>
        /\ pc = "aborted"
        /\ row <= Len(data_list)
        /\ Len(preds_list) = row - 1
        /\ Len(labels_list) = row - 1
        /\ test_preds = <<>> /\ test_labels = <<>>
        /\ out = <<>> /\ ret = <<>>
        /\ ~ENABLED Next

C6_Witness ==
    /\ error \in FailStages
    /\ row = 2
    /\ Len(data_list) >= 3

AllTrue(mask) == \A j \in DOMAIN mask[1] : mask[1][j]

\* C8 as stated: applying the mask to predictions/labels that the same mask
\* has already filtered changes nothing.
C8_Original ==
    common_classes_mask # NoMask =>
        \A k \in DOMAIN preds_list :
            /\ MaskIndex(preds_list[k], common_classes_mask).ok
            /\ MaskIndex(preds_list[k], common_classes_mask).v = preds_list[k][1]
            /\ MaskIndex(labels_list[k], common_classes_mask).ok
            /\ MaskIndex(labels_list[k], common_classes_mask).v = labels_list[k][1]

\* C8 amended: applying the mask again to an accumulated, already filtered row
\* changes nothing when the mask selects every column; when the mask has a
\* false entry the second application fails on the shape mismatch.
C8_RemaskOnlyWhenAllTrue ==
    common_classes_mask # NoMask =>
        \A k \in DOMAIN preds_list :
            IF AllTrue(common_classes_mask)
            THEN /\ MaskIndex(preds_list[k], common_classes_mask).ok
                 /\ MaskIndex(preds_list[k], common_classes_mask).v = preds_list[k][1]
                 /\ MaskIndex(labels_list[k], common_classes_mask).ok
                 /\ MaskIndex(labels_list[k], common_classes_mask).v = labels_list[k][1]
            ELSE /\ ~MaskIndex(preds_list[k], common_classes_mask).ok
                 /\ ~MaskIndex(labels_list[k], common_classes_mask).ok

C8_Witness ==
    /\ common_classes_mask # NoMask
    /\ AllTrue(common_classes_mask)
    /\ Len(preds_list) >= 1
    /\ MaskIndex(preds_list[1], common_classes_mask).v = preds_list[1][1]

\* ======================================================================
\* The two MultilabelF1Score calls of evaluate_model, on drawn tensors
\* ======================================================================
\* the four kinds of cell: a score on either side of the threshold with
\* either label
CellKinds ==
    << [pred |-> 80, label |-> 1], [pred |-> 80, label |-> 0],
       [pred |-> 20, label |-> 1], [pred |-> 20, label |-> 0] >>

\* The columns of n cells.  The score reads a column only through its counts
\* of the four kinds, so a column is drawn with its cells grouped by kind.
Columns(n) ==
    { col \in [1..n -> DOMAIN CellKinds] :
         \A i, j \in 1..n : i < j => col[i] <= col[j] }

PredsOf(cols, n) ==
    [r \in 1..n |-> [c \in DOMAIN cols |-> CellKinds[cols[c][r]].pred]]

LabelsOf(cols, n) ==
    [r \in 1..n |-> [c \in DOMAIN cols |-> CellKinds[cols[c][r]].label]]

InitMetrics ==
    /\ \E n \in 1..MaxRows : \E cols \in [1..MetricClasses -> Columns(n)] :
          /\ m_preds = PredsOf(cols, n)
          /\ m_labels = LabelsOf(cols, n)
    /\ f1_macro = <<0, 1>> /\ f1_micro = <<0, 1>> /\ mpc = "macro"
    /\ top_k = 0 /\ top_classes = <<>> /\ zero_classes = <<>>
    /\ AlignIdle /\ EvalIdle /\ BufIdle /\ CiIdle

\* f1_macro(test_preds, test_labels)
CallMacro ==
    /\ mpc = "macro"
    /\ f1_macro' = MacroF1(m_preds, m_labels)
    /\ mpc' = "micro"
    /\ UNCHANGED <<m_preds, m_labels, f1_micro, top_k, top_classes, zero_classes>>
    /\ UNCHANGED <<alignVars, evalVars, bufVars, ciVars>>

\* f1_micro(test_preds, test_labels)
CallMicro ==
    /\ mpc = "micro"
    /\ f1_micro' = MicroF1(m_preds, m_labels)
    /\ mpc' = "done"
    /\ UNCHANGED <<m_preds, m_labels, f1_macro, top_k, top_classes, zero_classes>>
    /\ UNCHANGED <<alignVars, evalVars, bufVars, ciVars>>

NextMetrics == CallMacro \/ CallMicro

SpecMetrics == InitMetrics /\ [][NextMetrics]_vars

\* --------------------------------------------------------------------- C10
TP(c) == TruePos(m_preds, m_labels, c)
FP(c) == FalsePos(m_preds, m_labels, c)
FN(c) == FalseNeg(m_preds, m_labels, c)

Precision(tp, fp) == IF tp + fp = 0 THEN <<0, 1>> ELSE <<tp, tp + fp>>
Recall(tp, fn) == IF tp + fn = 0 THEN <<0, 1>> ELSE <<tp, tp + fn>>
HarmonicMean(p, r) ==
    IF p[1] = 0 /\ r[1] = 0 THEN <<0, 1>>
    ELSE <<2 * p[1] * r[1], p[1] * r[2] + r[1] * p[2]>>
StatedF1(tp, fp, fn) == HarmonicMean(Precision(tp, fp), Recall(tp, fn))

StatedMacro ==
    LET s == FracSum([c \in 1..MetricClasses |-> StatedF1(TP(c), FP(c), FN(c))])
    IN  <<s[1], s[2] * MetricClasses>>

StatedMicro ==
    StatedF1(SumSeq([c \in 1..MetricClasses |-> TP(c)]),
             SumSeq([c \in 1..MetricClasses |-> FP(c)]),
             SumSeq([c \in 1..MetricClasses |-> FN(c)]))

FracLess(a, b) == a[1] * b[2] < b[1] * a[2]

\* Best choosing the lowest score
Best_lowest(f1, remaining) ==
    {c \in remaining : \A d \in remaining : ~FracLess(f1[d], f1[c])}

\* the classes of a set whose score no other class of the set exceeds
Best(f1, remaining) ==
    {c \in remaining : \A d \in remaining : ~FracLess(f1[c], f1[d])}

\* the lists a top-k selection by score may give: the k best classes, best
\* first.  Which of several classes of equal score comes first is left open:
\* in the recorded run of the notebook the classes printed with F1 1.000000
\* are not in the order of the class file.
RECURSIVE TopKOrders(_, _, _)
TopKOrders(f1, k, remaining) ==
    IF k = 0 \/ remaining = {} THEN {<<>>}
    ELSE UNION { {<<c>> \o t : t \in TopKOrders(f1, k - 1, remaining \ {c})} :
                 c \in Best(f1, remaining) }

\* ZeroF1Classes without the test on the labels
ZeroF1Classes_noLabelCheck(P, L) ==
    SelectSeq([c \in 1..Len(P[1]) |-> c],
              LAMBDA c : PerClassF1(P, L)[c][1] = 0)

\* the classes with F1 exactly 0 among those with at least one positive label,
\* in column order
ZeroF1Classes(P, L) ==
    SelectSeq([c \in 1..Len(P[1]) |-> c],
              LAMBDA c : /\ PerClassF1(P, L)[c][1] = 0
                         /\ SumSeq([n \in DOMAIN L |-> L[n][c]]) # 0)

InitReport ==
    /\ \E n \in 1..MaxReportRows : \E cols \in [1..ReportClasses -> Columns(n)] :
          /\ m_preds = PredsOf(cols, n)
          /\ m_labels = LabelsOf(cols, n)
    /\ top_k \in 1..ReportClasses
    /\ f1_macro = <<0, 1>> /\ f1_micro = <<0, 1>> /\ mpc = "report"
    /\ top_classes = <<>> /\ zero_classes = <<>>
    /\ AlignIdle /\ EvalIdle /\ BufIdle /\ CiIdle

\* print_metrics(preds, labels, DEVICE, classes, markdown_output=False, top_k):
\* the aggregate F1 lines, the top-k list and the zero-F1 list (the precision,
\* recall and balanced-accuracy lines only print)
PrintMetrics ==
    /\ mpc = "report"
    /\ f1_macro' = MacroF1(m_preds, m_labels)
    /\ f1_micro' = MicroF1(m_preds, m_labels)
    /\ top_classes' \in TopKOrders(PerClassF1(m_preds, m_labels), top_k, 1..Len(m_preds[1]))
    /\ zero_classes' = ZeroF1Classes(m_preds, m_labels)
    /\ mpc' = "printed"
    /\ UNCHANGED <<m_preds, m_labels, top_k>>
    /\ UNCHANGED <<alignVars, evalVars, bufVars, ciVars>>

NextReport == PrintMetrics

SpecReport == InitReport /\ [][NextReport]_vars

\* ---------------------------------------------------------------- C11, C12
ClassF1(c) == PerClassF1(m_preds, m_labels)[c]
Listed == {top_classes[i] : i \in DOMAIN top_classes}
ReportedClasses == 1..ReportClasses

\* C11 as stated: a top-K request on C >= K classes lists exactly K classes
\* in order of descending F1, classes of equal F1 in ascending column index,
\* and no unlisted class has a higher F1 than a listed one.
C11_Original ==
    mpc = "printed" =>
        /\ Len(top_classes) = top_k
        /\ \A i, j \in DOMAIN top_classes :
              i < j =>
                 /\ top_classes[i] # top_classes[j]
                 /\ ~FracLess(ClassF1(top_classes[i]), ClassF1(top_classes[j]))
                 /\ FracEq(ClassF1(top_classes[i]), ClassF1(top_classes[j]))
                       => top_classes[i] < top_classes[j]
        /\ \A c \in ReportedClasses \ Listed :
              \A i \in DOMAIN top_classes : ~FracLess(ClassF1(top_classes[i]), ClassF1(c))

\* C11 amended: a top-K request on C >= K classes lists exactly K different
\* classes in order of descending F1, and no unlisted class has a higher F1
\* than a listed one; classes of equal F1 are listed in no fixed order.
C11_TopKDescending ==
    mpc = "printed" =>
        /\ Len(top_classes) = top_k
        /\ Cardinality(Listed) = top_k
        /\ \A i \in DOMAIN top_classes :
              Cardinality({c \in ReportedClasses :
                              FracLess(ClassF1(top_classes[i]), ClassF1(c))}) < i
        /\ \A i, j \in DOMAIN top_classes :
              i < j => ~FracLess(ClassF1(top_classes[i]), ClassF1(top_classes[j]))

C11_Witness ==
    /\ mpc = "printed"
    /\ top_k = 2
    /\ Len(top_classes) = 2
    /\ FracLess(ClassF1(top_classes[2]), ClassF1(top_classes[1]))
    /\ top_classes[2] < top_classes[1]
    /\ \E c \in ReportedClasses \ Listed : FracEq(ClassF1(c), ClassF1(top_classes[2]))

HasPositiveLabel(c) == \E n \in DOMAIN m_labels : m_labels[n][c] = 1
HasPredictedPositive(c) == \E n \in DOMAIN m_preds : m_preds[n][c] > Threshold
HasHit(c) ==
    \E n \in DOMAIN m_preds : m_preds[n][c] > Threshold /\ m_labels[n][c] = 1

\* C12: the zero-F1 list holds exactly the classes whose F1 is 0 and that
\* have at least one positive label; a class without actual and without
\* predicted positives is never in it.
C12_ZeroList ==
    mpc = "printed" =>
        /\ \A c \in ReportedClasses :
              /\ InList(c, zero_classes)
                    <=> (FracEq(ClassF1(c), <<0, 1>>) /\ HasPositiveLabel(c))
              /\ InList(c, zero_classes) <=> (HasPositiveLabel(c) /\ ~HasHit(c))
              /\ (~HasPositiveLabel(c) /\ ~HasPredictedPositive(c))
                    => ~InList(c, zero_classes)
        /\ \A i, j \in DOMAIN zero_classes : zero_classes[i] = zero_classes[j] => i = j

C12_Witness ==
    /\ mpc = "printed"
    /\ \E c, d, e \in ReportedClasses :
          /\ ~HasPositiveLabel(c) /\ ~HasPredictedPositive(c)
          /\ ~InList(c, zero_classes)
          /\ InList(d, zero_classes)
          /\ HasPositiveLabel(e) /\ ~InList(e, zero_classes)

\* ======================================================================
\* Verify Constants workflow
\* ======================================================================
\* File names are sequences of characters, so that grep can be applied to them.
\* "README.md"
ReadmeMd ==
    <<"R", "E", "A", "D", "M", "E", ".", "m", "d">>

\* "chebai/preprocessing/reader.py"
ReaderPy ==
    <<"c", "h", "e", "b", "a", "i", "/", "p", "r", "e", "p", "r", "o", "c",
      "e", "s", "s", "i", "n", "g", "/", "r", "e", "a", "d", "e", "r", ".",
      "p", "y">>

\* "chebai/preprocessing/reader_py"
ReaderUnderscorePy ==
    <<"c", "h", "e", "b", "a", "i", "/", "p", "r", "e", "p", "r", "o", "c",
      "e", "s", "s", "i", "n", "g", "/", "r", "e", "a", "d", "e", "r", "_",
      "p", "y">>

\* "old/chebai/preprocessing/reader.py.bak"
ReaderPyBak ==
    <<"o", "l", "d", "/", "c", "h", "e", "b", "a", "i", "/", "p", "r", "e",
      "p", "r", "o", "c", "e", "s", "s", "i", "n", "g", "/", "r", "e", "a",
      "d", "e", "r", ".", "p", "y", ".", "b", "a", "k">>

\* the files a difference can be in, in the order git lists them
PathList == <<ReadmeMd, ReaderPy, ReaderUnderscorePy, ReaderPyBak>>
Paths == {PathList[i] : i \in DOMAIN PathList}

\* on.push.paths / on.pull_request.paths
trigger_paths == {ReaderPy}

\* file_name="chebai/preprocessing/reader.py"
file_name == ReaderPy

ConstNames == {"EMBEDDING_OFFSET", "CLS_TOKEN", "PADDING_TOKEN_INDEX", "MASK_TOKEN_INDEX"}
ConstVals == {0, 1, 2, 10}

exp_embedding_offset == "10"
exp_cls_token == "2"
exp_padding_token_index == "0"
exp_mask_token_index == "1"

\* the four comparisons of the verify step, in the order of the script
Checks ==
    <<[name |-> "EMBEDDING_OFFSET",    var |-> "E_EMBEDDING_OFFSET",    exp |-> exp_embedding_offset],
      [name |-> "CLS_TOKEN",           var |-> "E_CLS_TOKEN",           exp |-> exp_cls_token],
      [name |-> "PADDING_TOKEN_INDEX", var |-> "E_PADDING_TOKEN_INDEX", exp |-> exp_padding_token_index],
      [name |-> "MASK_TOKEN_INDEX",    var |-> "E_MASK_TOKEN_INDEX",    exp |-> exp_mask_token_index]>>

\* grep's match of a pattern made of literal characters and "." on one line:
\* the pattern may start anywhere in the line and "." stands for any character
LineMatches(pattern, line) ==
    \E off \in 0..(Len(line) - Len(pattern)) :
        \A i \in 1..Len(pattern) : pattern[i] = "." \/ pattern[i] = line[off + i]

\* grep -q pattern file: some line of the file matches
GrepQ(pattern, lines) == \E l \in DOMAIN lines : LineMatches(pattern, lines[l])

\* git diff --name-only: the differing files, one per line, in path order
DiffNameOnly(differing) == SelectSeq(PathList, LAMBDA f : f \in differing)

\* jq's  to_entries|map("E_\(.key)=\(.value|tostring)")  appended to GITHUB_ENV
EnvFromJson(json) ==
    [v \in {"E_" \o k : k \in DOMAIN json} |->
        ToString(json[CHOOSE k \in DOMAIN json : "E_" \o k = v])]

\* "$VAR" in the shell: the empty string when the variable is not set
Expand(e, var) == IF var \in DOMAIN e THEN e[var] ELSE ""

\* ComparisonsMade of a script that reports a mismatch without leaving: all
\* four tests are made
ComparisonsMade_all(e, i) == Len(Checks)

\* number of comparisons the verify script makes: it stops at the first mismatch
RECURSIVE ComparisonsMade(_, _)
ComparisonsMade(e, i) ==
    IF i > Len(Checks) THEN Len(Checks)
    ELSE IF Expand(e, Checks[i].var) # Checks[i].exp THEN i
    ELSE ComparisonsMade(e, i + 1)

InitCI ==
    /\ event_paths \in {{ReaderPy}, {ReaderPy, ReadmeMd}, {ReadmeMd}}
    /\ diff_vs_dev \in SUBSET Paths
    /\ reader_constants \in UNION {[S -> ConstVals] : S \in SUBSET ConstNames}
    /\ changed_files = <<>> /\ constants_json = <<>> /\ env = <<>>
    /\ compared = <<>> /\ ci_out = <<>> /\ exit_code = 0 /\ cpc = "event"
    /\ AlignIdle /\ EvalIdle /\ MetricIdle /\ BufIdle

\* a push or pull request starts the workflow when it touches a trigger path
TriggerWorkflow ==
    /\ cpc = "event"
    /\ event_paths \cap trigger_paths # {}
    /\ cpc' = "changed_files"
    /\ UNCHANGED <<event_paths, diff_vs_dev, reader_constants, changed_files,
                   constants_json, env, compared, ci_out, exit_code>>
    /\ UNCHANGED <<alignVars, evalVars, metricVars, bufVars>>

\* step "Get list of changed files": the checked-out tree against origin/dev
GetChangedFiles ==
    /\ cpc = "changed_files"
    /\ changed_files' = DiffNameOnly(diff_vs_dev)
    /\ ci_out' = [i \in 1..Len(DiffNameOnly(diff_vs_dev)) |->
                     [kind |-> "changed", file |-> DiffNameOnly(diff_vs_dev)[i]]]
    /\ cpc' = "export"
    /\ UNCHANGED <<event_paths, diff_vs_dev, reader_constants, constants_json,
                   env, compared, exit_code>>
    /\ UNCHANGED <<alignVars, evalVars, metricVars, bufVars>>

\* step "Export constants": constants.json holds the reader module's constants
ExportConstants ==
    /\ cpc = "export"
    /\ constants_json' = reader_constants
    /\ cpc' = "load"
    /\ UNCHANGED <<event_paths, diff_vs_dev, reader_constants, changed_files,
                   env, compared, ci_out, exit_code>>
    /\ UNCHANGED <<alignVars, evalVars, metricVars, bufVars>>

\* step "Load constants into environment variables"
LoadConstants ==
    /\ cpc = "load"
    /\ env' = EnvFromJson(constants_json)
    /\ cpc' = "verify"
    /\ UNCHANGED <<event_paths, diff_vs_dev, reader_constants, changed_files,
                   constants_json, compared, ci_out, exit_code>>
    /\ UNCHANGED <<alignVars, evalVars, metricVars, bufVars>>

\* step "Verify constants"
VerifyConstants ==
    /\ cpc = "verify"
    /\ IF GrepQ(file_name, changed_files)
       THEN LET n   == ComparisonsMade(env, 1)
                bad == Expand(env, Checks[n].var) # Checks[n].exp
            IN  /\ compared' = [i \in 1..n |-> Checks[i].name]
                /\ ci_out' = ci_out \o
                     <<[kind |-> "checking", file |-> file_name],
                       [kind |-> "debug", name |-> Checks[1].name,
                        actual |-> Expand(env, Checks[1].var), expected |-> Checks[1].exp]>> \o
                     (IF bad
                      THEN <<[kind |-> "mismatch", name |-> Checks[n].name,
                              actual |-> Expand(env, Checks[n].var),
                              expected |-> Checks[n].exp]>>
                      ELSE <<>>)
                /\ exit_code' = IF bad THEN 1 ELSE 0
       ELSE /\ compared' = <<>>
            /\ ci_out' = Append(ci_out, [kind |-> "skipping", file |-> file_name])
            /\ exit_code' = 0
    /\ cpc' = "done"
    /\ UNCHANGED <<event_paths, diff_vs_dev, reader_constants, changed_files,
                   constants_json, env>>
    /\ UNCHANGED <<alignVars, evalVars, metricVars, bufVars>>

NextCI ==
    TriggerWorkflow \/ GetChangedFiles \/ ExportConstants \/ LoadConstants \/ VerifyConstants

SpecCI == InitCI /\ [][NextCI]_vars

\* ---------------------------------------------------------------------- C7
Expected ==
    [k \in ConstNames |->
        CASE k = "EMBEDDING_OFFSET" -> 10
          [] k = "CLS_TOKEN" -> 2
          [] k = "PADDING_TOKEN_INDEX" -> 0
          [] k = "MASK_TOKEN_INDEX" -> 1]

MatchesExpected(k) == k \in DOMAIN reader_constants /\ reader_constants[k] = Expected[k]

\* a diagnostic that names constant k with its actual and its expected value
Diagnosed(k) ==
    \E i \in DOMAIN ci_out :
        /\ ci_out[i].kind = "mismatch"
        /\ ci_out[i].name = k
        /\ ci_out[i].expected = ToString(Expected[k])
        /\ ci_out[i].actual =
              (IF k \in DOMAIN reader_constants THEN ToString(reader_constants[k]) ELSE "")

\* C7: in every run of the workflow, which a change of reader.py starts, a
\* constant that differs from 10, 2, 0, 1 or is missing from the JSON makes
\* the verify step end with a non-zero status after a diagnostic naming a
\* differing constant; the step succeeds only if all four match.
C7_Original ==
    cpc = "done" =>
        /\ (\E k \in ConstNames : ~MatchesExpected(k)) =>
              /\ exit_code # 0
              /\ \E k \in ConstNames : ~MatchesExpected(k) /\ Diagnosed(k)
        /\ exit_code = 0 => \A k \in ConstNames : MatchesExpected(k)

\* --------------------------------------------------------------------- C13
\* the files of the model whose name, as a line, the pattern of grep matches
MatchingPaths == {ReaderPy, ReaderUnderscorePy, ReaderPyBak}
ListHasMatch == \E l \in DOMAIN changed_files : changed_files[l] \in MatchingPaths

ComparisonOrder ==
    <<"EMBEDDING_OFFSET", "CLS_TOKEN", "PADDING_TOKEN_INDEX", "MASK_TOKEN_INDEX">>

\* C13: when no line of the changed-file list matches reader.py the verify
\* step makes none of the four comparisons and succeeds whatever the constants
\* are; when some line matches, the comparisons are made in the order
\* EMBEDDING_OFFSET, CLS_TOKEN, PADDING_TOKEN_INDEX, MASK_TOKEN_INDEX and stop
\* at the first mismatch.
C13_ComparisonsOnlyOnMatch ==
    cpc = "done" =>
        /\ ~ListHasMatch => (compared = <<>> /\ exit_code = 0)
        /\ ListHasMatch =>
              /\ compared # <<>>
              /\ compared = SubSeq(ComparisonOrder, 1, Len(compared))
              /\ \A i \in 1..(Len(compared) - 1) : MatchesExpected(compared[i])
              /\ Len(compared) < Len(ComparisonOrder)
                    => ~MatchesExpected(compared[Len(compared)])
              /\ exit_code = (IF MatchesExpected(compared[Len(compared)]) THEN 0 ELSE 1)

C13_Witness ==
    /\ cpc = "done"
    /\ ListHasMatch
    /\ ReaderPy \notin diff_vs_dev
    /\ Len(compared) = 3
    /\ exit_code = 1
    /\ ~MatchesExpected("MASK_TOKEN_INDEX")

\* ======================================================================
\* evaluate_model with a buffer directory and load_results_from_buffer
\* (called by the results notebook; described in the specification, 4.2, 6)
\* ======================================================================
\* the examples of batch number b (from 0) of a list cut into batches of size n
BatchExamples(list, n, b) ==
    SubSeq(list, b * n + 1, IF (b + 1) * n < Len(list) THEN (b + 1) * n ELSE Len(list))

NumBatches(list, n) == (Len(list) + n - 1) \div n

\* predictions and labels of one batch: one row per example, in batch order
RunBatch(examples) ==
    [preds  |-> ConcatRows([i \in DOMAIN examples |-> GetPredictionAndLabels(examples[i])[1]]),
     labels |-> ConcatRows([i \in DOMAIN examples |-> GetPredictionAndLabels(examples[i])[2]])]

\* what an earlier run may have left under a batch index
StaleFile == RunBatch(<<Example(1)>>)

RECURSIVE ReadAscending(_, _)
ReadAscending(dir, idxs) ==
    IF idxs = {} THEN <<>>
    ELSE LET lo == CHOOSE i \in idxs : \A j \in idxs : i <= j
         IN  <<dir[lo]>> \o ReadAscending(dir, idxs \ {lo})

\* LoadResultsFromBuffer reading the batch files from the highest index down
RECURSIVE ReadDescending(_, _)
ReadDescending(dir, idxs) ==
    IF idxs = {} THEN <<>>
    ELSE LET hi == CHOOSE i \in idxs : \A j \in idxs : i >= j
         IN  <<dir[hi]>> \o ReadDescending(dir, idxs \ {hi})

LoadResultsFromBuffer_descending(dir) ==
    LET files == ReadDescending(dir, DOMAIN dir)
    IN  <<ConcatRows([i \in DOMAIN files |-> files[i].preds]),
          ConcatRows([i \in DOMAIN files |-> files[i].labels])>>

\* the loader: every pair found in the directory, by batch index, concatenated
LoadResultsFromBuffer(dir) ==
    LET files == ReadAscending(dir, DOMAIN dir)
    IN  <<ConcatRows([i \in DOMAIN files |-> files[i].preds]),
          ConcatRows([i \in DOMAIN files |-> files[i].labels])>>

InitBuf ==
    /\ b_data \in SeqsUpTo(ExampleSet, MaxExamples) \ {<<>>}
    /\ batch_size \in 1..MaxBatchSize
    /\ \E stale \in SUBSET (0..(MaxStale - 1)) :
          buffer_dir = [i \in stale |-> StaleFile]
    /\ bpos = 0 /\ save_ind = 0
    /\ mem_result = <<<<>>, <<>>>> /\ buf_result = <<<<>>, <<>>>> /\ bpc = "memory"
    /\ AlignIdle /\ EvalIdle /\ MetricIdle /\ CiIdle

\* in-memory run (buffer_dir=None): one batch more is appended to the result
MemoryBatch ==
    /\ bpc = "memory" /\ bpos < NumBatches(b_data, batch_size)
    /\ LET r == RunBatch(BatchExamples(b_data, batch_size, bpos))
       IN  mem_result' = <<mem_result[1] \o r.preds, mem_result[2] \o r.labels>>
    /\ bpos' = bpos + 1
    /\ UNCHANGED <<buffer_dir, batch_size, b_data, save_ind, buf_result, bpc>>
    /\ UNCHANGED <<alignVars, evalVars, metricVars, ciVars>>

\* the in-memory run returns its two tensors
MemoryReturn ==
    /\ bpc = "memory" /\ bpos = NumBatches(b_data, batch_size)
    /\ bpc' = "buffer" /\ bpos' = 0
    /\ UNCHANGED <<buffer_dir, batch_size, b_data, save_ind, mem_result, buf_result>>
    /\ UNCHANGED <<alignVars, evalVars, metricVars, ciVars>>

\* buffered run: the batch's pair is written under the next batch index
BufferBatch ==
    /\ bpc = "buffer" /\ bpos < NumBatches(b_data, batch_size)
    /\ buffer_dir' =
         [i \in DOMAIN buffer_dir \cup {save_ind} |->
             IF i = save_ind
             THEN RunBatch(BatchExamples(b_data, batch_size, bpos))
             ELSE buffer_dir[i]]
    /\ save_ind' = save_ind + 1
    /\ bpos' = bpos + 1
    /\ UNCHANGED <<batch_size, b_data, mem_result, buf_result, bpc>>
    /\ UNCHANGED <<alignVars, evalVars, metricVars, ciVars>>

\* writing is complete
BufferDone ==
    /\ bpc = "buffer" /\ bpos = NumBatches(b_data, batch_size)
    /\ bpc' = "load"
    /\ UNCHANGED <<buffer_dir, batch_size, b_data, bpos, save_ind, mem_result, buf_result>>
    /\ UNCHANGED <<alignVars, evalVars, metricVars, ciVars>>

\* preds, labels = load_results_from_buffer(buffer_dir, device=DEVICE)
LoadBuffer ==
    /\ bpc = "load"
    /\ buf_result' = LoadResultsFromBuffer(buffer_dir)
    /\ bpc' = "done"
    /\ UNCHANGED <<buffer_dir, batch_size, b_data, bpos, save_ind, mem_result>>
    /\ UNCHANGED <<alignVars, evalVars, metricVars, ciVars>>

NextBuf == MemoryBatch \/ MemoryReturn \/ BufferBatch \/ BufferDone \/ LoadBuffer

SpecBuf == InitBuf /\ [][NextBuf]_vars

====
